---- MODULE Spec2Model ----
(***************************************************************************)
(* Weather Assistant (src/app.py): the Streamlit script as a state machine. *)
(*                                                                         *)
(* One run of the script from top to bottom is one request cycle.  A run   *)
(* is started by a widget event (text submitted, button clicked, voice     *)
(* selected) or by st.rerun(); the widget state and st.session_state       *)
(* survive from one run to the next, everything else is rebuilt by the     *)
(* run.  Widget events are taken between runs.                             *)
(*                                                                         *)
(* A Python string is a sequence of one-character strings; None is the     *)
(* one-element sequence <<"None">>, which no string equals.  An optional   *)
(* object (the weather dict, the audio buffer) is a sequence of length 0   *)
(* (None) or 1.  The answers of the four external services are inputs,     *)
(* drawn afresh at every call.                                             *)
(***************************************************************************)
EXTENDS Integers, Sequences, FiniteSets, TLC

\* ------------------------------------------------------------------ values

None == <<"None">>

\* Python truthiness of a str-or-None value: `if s:`
Truthy(s) == s # None /\ s # <<>>

\* The literal 'no_valid_city' of lines 59, 65 and 147.
no_valid_city == <<"n","o","_","v","a","l","i","d","_","c","i","t","y">>

\* l with its last character forgotten.
l_without_star == <<"!","@","#","$","%","&">>

\* l = "!@#$%&*" (line 158)
l == <<"!","@","#","$","%","&","*">>

Chars(s) == { s[i] : i \in 1..Len(s) }

Whitespace == {" ", "\n", "\t"}

\* str.strip(): leading and trailing whitespace removed.
RECURSIVE lstrip(_)
lstrip(s) ==
    IF s # <<>> /\ Head(s) \in Whitespace THEN lstrip(Tail(s)) ELSE s

RECURSIVE rstrip(_)
rstrip(s) ==
    IF s # <<>> /\ s[Len(s)] \in Whitespace
    THEN rstrip(SubSeq(s, 1, Len(s) - 1))
    ELSE s

strip(s) == rstrip(lstrip(s))

\* ------------------------------------------------------------------ bounds

\* Longest generated language-model summary (besides the fixed samples).
MaxLen == 2

RECURSIVE SeqsUpTo(_, _)
SeqsUpTo(S, n) ==
    IF n = 0 THEN {<<>>}
    ELSE LET shorter == SeqsUpTo(S, n - 1)
         IN  shorter \cup { Append(s, c) : s \in shorter, c \in S }

\* ------------------------------------------------------------------ inputs

Tokyo == <<"T","o","k","y","o">>
Paris == <<"P","a","r","i","s">>
Oslo  == <<"O","s","l","o">>

\* An answer of the model that is neither a city nor the sentinel.
NotACity == <<"N","o"," ","c","i","t","y","!">>

\* What the user may type into the text input (line 125).
UserTexts == { <<>>, <<"T","o","k","y","o","?">>, <<"h","i","!">> }

\* An external call's answer: ok with its text, or an exception with str(e).
Ok(t)     == [ok |-> TRUE,  text |-> t]
Raised(d) == [ok |-> FALSE, text |-> d]

\* geocoder.ip('me'): g.city is a city, None or "", or the call raises.
GeoOutcomes ==
    { Ok(Paris), Ok(Oslo), Ok(None), Ok(<<>>), Raised(<<"d","n","s">>) }

\* model.generate_content() for the extraction prompt: response.text.
ExtractOutcomes ==
    { Ok(Tokyo), Ok(<<" ">> \o Tokyo \o <<"\n">>),
      Ok(NotACity),
      Ok(no_valid_city), Ok(<<" ">> \o no_valid_city \o <<"\n">>),
      Ok(<<>>), Ok(<<" ","\n">>),
      Raised(<<"4","2","9">>) }

Observation(name, country, temp) ==
    [ name |-> name, country |-> country, temp |-> temp,
      feels_like |-> temp - 1, pressure |-> 1012, humidity |-> 60,
      wind_speed |-> 3, main |-> <<"C","l","e","a","r">>,
      description |-> <<"c","l","e","a","r"," ","s","k","y">> ]

Observations ==
    { Observation(Tokyo, <<"J","P">>, 15), Observation(Paris, <<"F","R">>, 9) }

\* requests.get + raise_for_status + json(): the JSON body, or a
\* RequestException with its message.
WeatherOutcomes ==
    { [ok |-> TRUE,  json |-> <<o>>, text |-> <<>>] : o \in Observations }
    \cup { [ok |-> FALSE, json |-> <<>>, text |-> <<"4","0","4">>] }

SummaryAlphabet == {"a", "!", " "}

\* model.generate_content() for the summary prompt: response.text.
SummaryOutcomes ==
    { Ok(s) : s \in SeqsUpTo(SummaryAlphabet, MaxLen) }
    \cup { Ok(<<"5","0","%"," ","*","o","k","*","\n">>),
           Ok(<<"@","a","#","b","$","c","&","?">>) }
    \cup { Raised(<<"q","u","o","t","a","!">>) }

AudioBytes == <<"I","D","3">>

\* requests.post + raise_for_status: response.content, or RequestException.
SpeechOutcomes == { Ok(AudioBytes), Ok(<<>>), Raised(<<"4","0","1">>) }

\* os.getenv("elevenlabs_api"): unset, set to "", or set.
ApiKeys == { None, <<>>, <<"k","e","y">> }

VoiceNames == {"Rachel", "Bella", "Antoni", "Daniel"}

voice_map ==
    [ v \in VoiceNames |->
        CASE v = "Rachel" -> "21m00Tcm4TlvDq8ikWAM"
          [] v = "Bella"  -> "EXAVITQu4vr4xnSDxMaL"
          [] v = "Antoni" -> "AZnzlk1XvdvUeBnXmlld"
          [] v = "Daniel" -> "IKne3meq5aSn9XLyUdCD" ]

\* -------------------------------------------------------------------- log

\* What a run does that is visible from outside, in order:
\*   "invoke"  a component function is entered       (what: the function)
\*   "call"    a request leaves for an external service (what: the service)
\*   "raise"   the service's call raises               (what: the service)
\*   "error"   st.error       "warning" st.warning   (what: the message)
\*   "markdown", "info", "audio"   st.markdown / st.info / st.audio
Event(kind, what, text) ==
    [kind |-> kind, what |-> what, text |-> text, voice_id |-> ""]

\* The POST of line 88: the url carries the voice id, the body the text.
SpeechCall(voice_id, text) ==
    [kind |-> "call", what |-> "elevenlabs", text |-> text,
     voice_id |-> voice_id]

Events(log, kind, what) ==
    SelectSeq(log, LAMBDA e : e.kind = kind /\ e.what = what)

OfKind(log, kinds) == SelectSeq(log, LAMBDA e : e.kind \in kinds)

\* ------------------------------------------------------- component functions

\* weather_report without the st.error of line 32.
weather_report_silent(city, o) ==
    [ret |-> IF o.ok THEN o.json ELSE <<>>,
     log |-> << Event("invoke", "weather_report", city),
                Event("call", "openweathermap", city) >>
             \o (IF o.ok THEN <<>>
                 ELSE << Event("raise", "openweathermap", o.text) >>)]

\* weather_report returning a body although the request failed.
weather_report_body_on_error(city, o) ==
    LET enter == << Event("invoke", "weather_report", city),
                    Event("call", "openweathermap", city) >>
    IN  IF o.ok
        THEN [ret |-> o.json, log |-> enter]
        ELSE [ret |-> << Observation(city, <<>>, 0) >>,
              log |-> enter \o
                      << Event("raise", "openweathermap", o.text),
                         Event("error", "Weather API Error", o.text) >>]

\* weather_report(city_name), lines 20-33.  ret is <<json>> or <<>> (None).
weather_report(city, o) ==
    LET enter == << Event("invoke", "weather_report", city),
                    Event("call", "openweathermap", city) >>
    IN  IF o.ok
        THEN [ret |-> o.json, log |-> enter]
        ELSE [ret |-> <<>>,
              log |-> enter \o
                      << Event("raise", "openweathermap", o.text),
                         Event("error", "Weather API Error", o.text) >>]

AIErrorPrefix ==
    <<"U+26A0","U+FE0F"," ","A","I"," ","E","r","r","o","r",":"," ">>

\* generate_weather_summary with the user's question left out of the prompt.
generate_weather_summary_no_question(data, text, o) ==
    LET enter == << Event("invoke", "generate_weather_summary", text),
                    Event("call", "gemini.summary", <<"\n">> \o data.name) >>
    IN  IF o.ok
        THEN [ret |-> strip(o.text), log |-> enter]
        ELSE [ret |-> AIErrorPrefix \o o.text,
              log |-> Append(enter, Event("raise", "gemini.summary", o.text))]

\* generate_weather_summary without the except clause of lines 51-52: the
\* caller is left with no summary.
generate_weather_summary_uncaught(data, text, o) ==
    [ret |-> IF o.ok THEN strip(o.text) ELSE None,
     log |-> << Event("invoke", "generate_weather_summary", text),
                Event("call", "gemini.summary",
                      text \o <<"\n">> \o data.name) >>
             \o (IF o.ok THEN <<>>
                 ELSE << Event("raise", "gemini.summary", o.text) >>)]

\* generate_weather_summary(weather_data, user_input), lines 36-52.  The
\* prompt embeds user_input and the fields of weather_data; every exception
\* becomes the returned text.
generate_weather_summary(data, text, o) ==
    LET prompt == text \o <<"\n">> \o data.name
        enter  == << Event("invoke", "generate_weather_summary", text),
                     Event("call", "gemini.summary", prompt) >>
    IN  IF o.ok
        THEN [ret |-> strip(o.text), log |-> enter]
        ELSE [ret |-> AIErrorPrefix \o o.text,
              log |-> Append(enter, Event("raise", "gemini.summary", o.text))]

\* extract_city_name falling back on the user's text when the call fails.
extract_city_name_fallback(text, o) ==
    LET enter == << Event("invoke", "extract_city_name", text),
                    Event("call", "gemini.extract", text) >>
    IN  IF o.ok
        THEN [ret |-> strip(o.text), log |-> enter]
        ELSE [ret |-> text,
              log |-> enter \o
                      << Event("raise", "gemini.extract", o.text),
                         Event("error", "City extraction error", o.text) >>]

\* extract_city_name(user_input), lines 55-65.
extract_city_name(text, o) ==
    LET enter == << Event("invoke", "extract_city_name", text),
                    Event("call", "gemini.extract", text) >>
    IN  IF o.ok
        THEN [ret |-> strip(o.text), log |-> enter]
        ELSE [ret |-> no_valid_city,
              log |-> enter \o
                      << Event("raise", "gemini.extract", o.text),
                         Event("error", "City extraction error", o.text) >>]

\* text_to_speech without the credential test of lines 69-70.
text_to_speech_unguarded(text, voice_id, key, o) ==
    LET post == << Event("invoke", "text_to_speech", text),
                   SpeechCall(voice_id, text) >>
    IN  IF o.ok
        THEN [ret |-> <<o.text>>, log |-> post]
        ELSE [ret |-> <<>>,
              log |-> post \o
                      << Event("raise", "elevenlabs", o.text),
                         Event("error", "TTS Error", o.text) >>]

\* text_to_speech(text, voice_id), lines 68-93.  ret is <<bytes>> or <<>>.
text_to_speech(text, voice_id, key, o) ==
    LET enter == << Event("invoke", "text_to_speech", text) >>
        post  == Append(enter, SpeechCall(voice_id, text))
    IN  IF ~Truthy(key)
        THEN [ret |-> <<>>, log |-> enter]
        ELSE IF o.ok
        THEN [ret |-> <<o.text>>, log |-> post]
        ELSE [ret |-> <<>>,
              log |-> post \o
                      << Event("raise", "elevenlabs", o.text),
                         Event("error", "TTS Error", o.text) >>]

\* The loop of lines 157-161: csummary collects the characters not in l.
RECURSIVE csummary_loop(_, _)
csummary_loop(rest, csummary) ==
    IF rest = <<>> THEN csummary
    ELSE csummary_loop(Tail(rest),
                       IF Head(rest) \notin Chars(l)
                       THEN Append(csummary, Head(rest))
                       ELSE csummary)

\* detect_my_location forgetting the stored location when none is found.
detect_my_location_clears(loc, g) ==
    LET ip == Event("call", "geocoder.ip", <<"m","e">>)
    IN  IF g.ok /\ Truthy(g.text)
        THEN [location |-> g.text, rerun |-> TRUE, log |-> <<ip>>]
        ELSE [location |-> <<>>, rerun |-> FALSE,
              log |-> << ip, Event("error", "Couldn't detect location.",
                                   <<>>) >>]

\* The button's body, lines 128-136: on a city, the location is stored and
\* the script rerun; otherwise an error is shown and the run goes on.
detect_my_location(loc, g) ==
    LET ip == Event("call", "geocoder.ip", <<"m","e">>)
    IN  IF g.ok /\ Truthy(g.text)
        THEN [location |-> g.text, rerun |-> TRUE, log |-> <<ip>>]
        ELSE IF g.ok
        THEN [location |-> loc, rerun |-> FALSE,
              log |-> << ip, Event("error", "Couldn't detect location.",
                                   <<>>) >>]
        ELSE [location |-> loc, rerun |-> FALSE,
              log |-> << ip, Event("raise", "geocoder.ip", g.text),
                         Event("error", "Error", g.text) >>]

\* determine_city without the comparison of line 147.
determine_city_unchecked(loc, text, o) ==
    IF Truthy(loc)
    THEN [city_name |-> loc, extracted_city |-> None, log |-> <<>>]
    ELSE IF Truthy(text)
    THEN LET r == extract_city_name(text, o)
         IN  [city_name |-> r.ret, extracted_city |-> r.ret, log |-> r.log]
    ELSE [city_name |-> None, extracted_city |-> None, log |-> <<>>]

\* determine_city with the two branches of lines 143 and 145 swapped.
determine_city_text_first(loc, text, o) ==
    IF Truthy(text)
    THEN LET r == extract_city_name(text, o)
         IN  [city_name |-> IF r.ret # no_valid_city THEN r.ret ELSE None,
              extracted_city |-> r.ret, log |-> r.log]
    ELSE IF Truthy(loc)
    THEN [city_name |-> loc, extracted_city |-> None, log |-> <<>>]
    ELSE [city_name |-> None, extracted_city |-> None, log |-> <<>>]

\* Lines 143-148: the stored location first, then the typed text.
determine_city(loc, text, o) ==
    IF Truthy(loc)
    THEN [city_name |-> loc, extracted_city |-> None, log |-> <<>>]
    ELSE IF Truthy(text)
    THEN LET r == extract_city_name(text, o)
         IN  [city_name |-> IF r.ret # no_valid_city THEN r.ret ELSE None,
              extracted_city |-> r.ret, log |-> r.log]
    ELSE [city_name |-> None, extracted_city |-> None, log |-> <<>>]

\* ------------------------------------------------------------------ state

VARIABLES
    ELEVENLABS_API_KEY, \* line 13, fixed for the process
    location,           \* st.session_state.location; None while not set
    user_input,         \* the text input's value (line 125)
    voice_option,       \* the selectbox's value (line 107)
    detect_clicked,     \* st.button("Detect My Location") of this run
    listen_clicked,     \* st.button("Listen") of this run
    listen_rendered,    \* this run has put the Listen button on the page
    pc,                 \* where the run is; "idle" once it has finished
    city_name, extracted_city, weather_data, summary, csummary, audio,
    log,                \* the events of this run
    trace,              \* history: the steps of this run, each with the
                        \* answer it got from an external service, if any
    first               \* history: <<the finished run>> that a
                        \* resubmission repeats; <<>> otherwise

session == <<ELEVENLABS_API_KEY, location, user_input, voice_option>>
run     == <<detect_clicked, listen_clicked, listen_rendered, pc, city_name,
             extracted_city, weather_data, summary, csummary, audio, log,
             trace>>
vars    == <<session, run, first>>

\* One step of a run: where it leaves the run, and the answer o of the
\* service svc when the step's events rlog hold a request to it.
Step(at, rlog, svc, o) ==
    IF Events(rlog, "call", svc) # <<>>
    THEN [pc |-> at, svc |-> svc, answer |-> <<o>>]
    ELSE [pc |-> at, svc |-> "",  answer |-> <<>>]

\* StartRun leaving the results and the page of the run before in place.
StartRun_keeps_page(detect, listen) ==
    /\ pc' = "detect"
    /\ detect_clicked' = detect
    /\ listen_clicked' = listen
    /\ listen_rendered' = FALSE
    /\ city_name' = None
    /\ extracted_city' = None
    /\ trace' = <<>>
    /\ UNCHANGED <<weather_data, summary, csummary, audio, log>>

\* StartRun taking a Listen click straight to line 180 with the summary of
\* the run before it, as a click handler kept apart from the script would.
StartRun_listen_shortcut(detect, listen) ==
    /\ pc' = IF listen THEN "listen" ELSE "detect"
    /\ detect_clicked' = detect
    /\ listen_clicked' = listen
    /\ listen_rendered' = FALSE
    /\ city_name' = IF listen THEN city_name ELSE None
    /\ extracted_city' = IF listen THEN extracted_city ELSE None
    /\ weather_data' = IF listen THEN weather_data ELSE <<>>
    /\ summary' = IF listen THEN summary ELSE None
    /\ csummary' = IF listen THEN csummary ELSE None
    /\ audio' = <<>>
    /\ log' = <<>>
    /\ trace' = <<>>

\* A run starts at the top of the script with nothing computed yet.
StartRun(detect, listen) ==
    /\ pc' = "detect"
    /\ detect_clicked' = detect
    /\ listen_clicked' = listen
    /\ listen_rendered' = FALSE
    /\ city_name' = None
    /\ extracted_city' = None
    /\ weather_data' = <<>>
    /\ summary' = None
    /\ csummary' = None
    /\ audio' = <<>>
    /\ log' = <<>>
    /\ trace' = <<>>

\* The page is loaded: the first run, nothing typed, nothing clicked.
Init ==
    /\ ELEVENLABS_API_KEY \in ApiKeys
    /\ location = None
    /\ user_input = <<>>
    /\ voice_option = "Rachel"
    /\ pc = "detect"
    /\ detect_clicked = FALSE
    /\ listen_clicked = FALSE
    /\ listen_rendered = FALSE
    /\ city_name = None
    /\ extracted_city = None
    /\ weather_data = <<>>
    /\ summary = None
    /\ csummary = None
    /\ audio = <<>>
    /\ log = <<>>
    /\ trace = <<>>
    /\ first = <<>>

\* ---------------------------------------------------------------- triggers

\* SubmitText forgetting the stored location when new text is typed.
SubmitText_forgets_location ==
    /\ pc = "idle"
    /\ \E t \in UserTexts : user_input' = t
    /\ location' = IF user_input' # user_input THEN <<>> ELSE location
    /\ StartRun(FALSE, FALSE)
    /\ UNCHANGED <<ELEVENLABS_API_KEY, voice_option, first>>

\* The user submits the text input (line 125); the script reruns.
SubmitText ==
    /\ pc = "idle"
    /\ \E t \in UserTexts : user_input' = t
    /\ StartRun(FALSE, FALSE)
    /\ UNCHANGED <<ELEVENLABS_API_KEY, location, voice_option, first>>

\* The user picks another voice (line 107); the script reruns.
SelectVoice ==
    /\ pc = "idle"
    /\ \E v \in VoiceNames \ {voice_option} : voice_option' = v
    /\ StartRun(FALSE, FALSE)
    /\ UNCHANGED <<ELEVENLABS_API_KEY, location, user_input, first>>

\* The user clicks "Detect My Location" (line 127); the script reruns.
ClickDetect ==
    /\ pc = "idle"
    /\ StartRun(TRUE, FALSE)
    /\ UNCHANGED <<session, first>>

\* The user clicks "Listen" (line 180), which the page must show.
ClickListen ==
    /\ pc = "idle"
    /\ listen_rendered
    /\ StartRun(FALSE, TRUE)
    /\ UNCHANGED <<session, first>>

\* --------------------------------------------------------------- the script

\* Lines 127-136.
DetectMyLocation ==
    /\ pc = "detect"
    /\ IF detect_clicked
       THEN \E g \in GeoOutcomes :
              LET r == detect_my_location(location, g)
              IN  /\ location' = r.location
                  /\ IF r.rerun
                     THEN StartRun(FALSE, FALSE)        \* st.rerun()
                     ELSE /\ log' = log \o r.log
                          /\ pc' = "determine"
                          /\ trace' = Append(trace,
                                 Step("determine", r.log, "geocoder.ip", g))
                          /\ UNCHANGED <<detect_clicked, listen_clicked,
                                         listen_rendered, city_name,
                                         extracted_city, weather_data,
                                         summary, csummary, audio>>
       ELSE /\ pc' = "determine"
            /\ trace' = Append(trace, Step("determine", <<>>, "", <<>>))
            /\ UNCHANGED <<location, detect_clicked, listen_clicked,
                           listen_rendered, city_name, extracted_city,
                           weather_data, summary, csummary, audio, log>>
    /\ UNCHANGED <<ELEVENLABS_API_KEY, user_input, voice_option, first>>

\* Lines 139-148.
DetermineCity ==
    /\ pc = "determine"
    /\ location' = IF location = None THEN <<>> ELSE location
    /\ \E o \in ExtractOutcomes :
         LET r == determine_city(location', user_input, o)
         IN  /\ city_name' = r.city_name
             /\ extracted_city' = r.extracted_city
             /\ log' = log \o r.log
             /\ trace' = Append(trace,
                                Step("weather", r.log, "gemini.extract", o))
    /\ pc' = "weather"
    /\ UNCHANGED <<ELEVENLABS_API_KEY, user_input, voice_option,
                   detect_clicked, listen_clicked, listen_rendered,
                   weather_data, summary, csummary, audio, first>>

\* FetchWeather answering a resubmission from the run before it, as a cache
\* on weather_report would.
FetchWeather_memo ==
    /\ pc = "weather"
    /\ IF Truthy(city_name)
       THEN \E o \in WeatherOutcomes :
              LET r == IF first # <<>>
                       THEN [ret |-> first[1].weather_data, log |-> <<>>]
                       ELSE weather_report(city_name, o)
              IN  /\ weather_data' = r.ret
                  /\ IF r.ret # <<>>
                     THEN /\ log' = log \o r.log
                          /\ pc' = "summary"
                     ELSE /\ log' = Append(log \o r.log,
                                     Event("error",
                                           "Couldn't fetch weather data.",
                                           <<>>))
                          /\ pc' = "idle"
                  /\ trace' = Append(trace,
                                     Step(pc', r.log, "openweathermap", o))
       ELSE /\ log' = IF Truthy(user_input)
                      THEN Append(log,
                             Event("warning",
                                   "Please specify a valid city or use location detection.",
                                   <<>>))
                      ELSE log
            /\ pc' = "idle"
            /\ trace' = Append(trace, Step("idle", <<>>, "", <<>>))
            /\ UNCHANGED weather_data
    /\ UNCHANGED <<session, detect_clicked, listen_clicked, listen_rendered,
                   city_name, extracted_city, summary, csummary, audio,
                   first>>

\* FetchWeather with a plain else in place of the elif of line 187.
FetchWeather_warns_always ==
    /\ pc = "weather"
    /\ IF Truthy(city_name)
       THEN \E o \in WeatherOutcomes :
              LET r == weather_report(city_name, o)
              IN  /\ weather_data' = r.ret
                  /\ IF r.ret # <<>>
                     THEN /\ log' = log \o r.log
                          /\ pc' = "summary"
                     ELSE /\ log' = Append(log \o r.log,
                                     Event("error",
                                           "Couldn't fetch weather data.",
                                           <<>>))
                          /\ pc' = "idle"
                  /\ trace' = Append(trace,
                                     Step(pc', r.log, "openweathermap", o))
       ELSE /\ log' = Append(log,
                             Event("warning",
                                   "Please specify a valid city or use location detection.",
                                   <<>>))
            /\ pc' = "idle"
            /\ trace' = Append(trace, Step("idle", <<>>, "", <<>>))
            /\ UNCHANGED weather_data
    /\ UNCHANGED <<session, detect_clicked, listen_clicked, listen_rendered,
                   city_name, extracted_city, summary, csummary, audio,
                   first>>

\* FetchWeather testing city_name against None only at line 151.
FetchWeather_is_not_none ==
    /\ pc = "weather"
    /\ IF city_name # None
       THEN \E o \in WeatherOutcomes :
              LET r == weather_report(city_name, o)
              IN  /\ weather_data' = r.ret
                  /\ IF r.ret # <<>>
                     THEN /\ log' = log \o r.log
                          /\ pc' = "summary"
                     ELSE /\ log' = Append(log \o r.log,
                                     Event("error",
                                           "Couldn't fetch weather data.",
                                           <<>>))
                          /\ pc' = "idle"
                  /\ trace' = Append(trace,
                                     Step(pc', r.log, "openweathermap", o))
       ELSE /\ log' = IF Truthy(user_input)
                      THEN Append(log,
                             Event("warning",
                                   "Please specify a valid city or use location detection.",
                                   <<>>))
                      ELSE log
            /\ pc' = "idle"
            /\ trace' = Append(trace, Step("idle", <<>>, "", <<>>))
            /\ UNCHANGED weather_data
    /\ UNCHANGED <<session, detect_clicked, listen_clicked, listen_rendered,
                   city_name, extracted_city, summary, csummary, audio,
                   first>>

\* Lines 151-153 and 185-188.
FetchWeather ==
    /\ pc = "weather"
    /\ IF Truthy(city_name)
       THEN \E o \in WeatherOutcomes :
              LET r == weather_report(city_name, o)
              IN  /\ weather_data' = r.ret
                  /\ IF r.ret # <<>>
                     THEN /\ log' = log \o r.log
                          /\ pc' = "summary"
                     ELSE /\ log' = Append(log \o r.log,
                                     Event("error",
                                           "Couldn't fetch weather data.",
                                           <<>>))
                          /\ pc' = "idle"
                  /\ trace' = Append(trace,
                                     Step(pc', r.log, "openweathermap", o))
       ELSE /\ log' = IF Truthy(user_input)
                      THEN Append(log,
                             Event("warning",
                                   "Please specify a valid city or use location detection.",
                                   <<>>))
                      ELSE log
            /\ pc' = "idle"
            /\ trace' = Append(trace, Step("idle", <<>>, "", <<>>))
            /\ UNCHANGED weather_data
    /\ UNCHANGED <<session, detect_clicked, listen_clicked, listen_rendered,
                   city_name, extracted_city, summary, csummary, audio,
                   first>>

\* Lines 156-178.
SummarizeAndDisplay ==
    /\ pc = "summary"
    /\ \E o \in SummaryOutcomes :
         LET r == generate_weather_summary(weather_data[1], user_input, o)
         IN  /\ summary' = r.ret
             /\ csummary' = csummary_loop(r.ret, <<>>)
             /\ log' = log \o r.log \o
                       << Event("markdown", "Weather Details",
                                weather_data[1].name \o <<",", " ">>
                                    \o weather_data[1].country),
                          Event("info", "Summary", r.ret) >>
             /\ trace' = Append(trace,
                                Step("listen", r.log, "gemini.summary", o))
    /\ pc' = "listen"
    /\ UNCHANGED <<session, detect_clicked, listen_clicked, listen_rendered,
                   city_name, extracted_city, weather_data, audio, first>>

\* Listen stopping the page at a failed synthesis: only the error is left.
Listen_failure_replaces_page ==
    /\ pc = "listen"
    /\ listen_rendered' = Truthy(ELEVENLABS_API_KEY)
    /\ IF Truthy(ELEVENLABS_API_KEY) /\ listen_clicked
       THEN \E o \in SpeechOutcomes :
              LET r == text_to_speech(csummary, voice_map[voice_option],
                                      ELEVENLABS_API_KEY, o)
              IN  /\ audio' = r.ret
                  /\ log' = IF r.ret # <<>>
                            THEN log \o r.log \o
                                 << Event("audio", "audio/mp3", r.ret[1]) >>
                            ELSE r.log
                  /\ trace' = Append(trace,
                                     Step("idle", r.log, "elevenlabs", o))
       ELSE /\ trace' = Append(trace, Step("idle", <<>>, "", <<>>))
            /\ UNCHANGED <<audio, log>>
    /\ pc' = "idle"
    /\ UNCHANGED <<session, detect_clicked, listen_clicked, city_name,
                   extracted_city, weather_data, summary, csummary, first>>

\* Lines 180-184.
Listen ==
    /\ pc = "listen"
    /\ listen_rendered' = Truthy(ELEVENLABS_API_KEY)
    /\ IF Truthy(ELEVENLABS_API_KEY) /\ listen_clicked
       THEN \E o \in SpeechOutcomes :
              LET r == text_to_speech(csummary, voice_map[voice_option],
                                      ELEVENLABS_API_KEY, o)
              IN  /\ audio' = r.ret
                  /\ log' = log \o r.log \o
                            (IF r.ret # <<>>
                             THEN << Event("audio", "audio/mp3", r.ret[1]) >>
                             ELSE <<>>)
                  /\ trace' = Append(trace,
                                     Step("idle", r.log, "elevenlabs", o))
       ELSE /\ trace' = Append(trace, Step("idle", <<>>, "", <<>>))
            /\ UNCHANGED <<audio, log>>
    /\ pc' = "idle"
    /\ UNCHANGED <<session, detect_clicked, listen_clicked, city_name,
                   extracted_city, weather_data, summary, csummary, first>>

\* ------------------------------------------------------- how a run ended

Finished == pc = "idle"

Notices == OfKind(log, {"error", "warning"})

\* Lines 164-178 were reached: the details and the summary are on the page.
Ready ==
    /\ Finished
    /\ Events(log, "markdown", "Weather Details") # <<>>
    /\ Events(log, "info", "Summary") # <<>>

\* Line 186 was reached.
FailedWeatherUnavailable ==
    /\ Finished
    /\ Events(log, "error", "Couldn't fetch weather data.") # <<>>

\* Line 188 was reached.
FailedInvalidCity ==
    /\ Finished
    /\ Events(log, "warning",
              "Please specify a valid city or use location detection.") # <<>>

Next ==
    \/ SubmitText
    \/ SelectVoice
    \/ ClickDetect
    \/ ClickListen
    \/ DetectMyLocation
    \/ DetermineCity
    \/ FetchWeather
    \/ SummarizeAndDisplay
    \/ Listen

Spec == Init /\ [][Next]_vars

\* text_to_speech called on the summary of a finished run by a caller other
\* than the Listen button, which line 180 hides without a credential.
SynthesizeDirect ==
    /\ Ready
    /\ Events(log, "invoke", "text_to_speech") = <<>>
    /\ \E v \in VoiceNames, o \in SpeechOutcomes :
         LET r == text_to_speech(csummary, voice_map[v],
                                 ELEVENLABS_API_KEY, o)
         IN  /\ audio' = r.ret
             /\ log' = log \o r.log
             /\ trace' = Append(trace, Step(pc, r.log, "elevenlabs", o))
    /\ UNCHANGED <<session, detect_clicked, listen_clicked, listen_rendered,
                   pc, city_name, extracted_city, weather_data, summary,
                   csummary, first>>

NextSynth ==
    \/ Next
    \/ SynthesizeDirect

SpecSynth == Init /\ [][NextSynth]_vars

\* The run as it stands: everything the script has computed and shown.
ThisRun ==
    [ detect_clicked |-> detect_clicked, listen_clicked |-> listen_clicked,
      listen_rendered |-> listen_rendered, pc |-> pc,
      city_name |-> city_name, extracted_city |-> extracted_city,
      weather_data |-> weather_data, summary |-> summary,
      csummary |-> csummary, audio |-> audio, log |-> log, trace |-> trace ]

\* The user submits the same text again on a Ready page that a run without
\* a button click produced (line 125); the script reruns.
Resubmit ==
    /\ first = <<>>
    /\ Ready
    /\ ~detect_clicked /\ ~listen_clicked
    /\ first' = <<ThisRun>>
    /\ user_input' = user_input
    /\ StartRun(FALSE, FALSE)
    /\ UNCHANGED <<ELEVENLABS_API_KEY, location, voice_option>>

\* The answers that the steps tr got from service svc, in order.
Answers(tr, svc) == SelectSeq(tr, LAMBDA st : st.svc = svc)

\* Each service answers in tr as it did in tr0, request by request.
SameAnswers(tr, tr0) ==
    \A svc \in {"geocoder.ip", "gemini.extract", "openweathermap",
                 "gemini.summary", "elevenlabs"} :
      \A i \in 1..Len(Answers(tr, svc)) :
        i <= Len(Answers(tr0, svc))
        => Answers(tr, svc)[i].answer = Answers(tr0, svc)[i].answer

\* The program as in Next until a resubmission; from then on the rerun it
\* starts, with the services answering as they did in the run before.
NextResubmit ==
    \/ first = <<>> /\ Next
    \/ Resubmit
    \/ /\ first # <<>>
       /\ pc # "idle"
       /\ Next
       /\ SameAnswers(trace', first[1].trace)

SpecResubmit == Init /\ [][NextResubmit]_vars

\* ------------------------------------------------------------------ claims

\* The run is past "Determine City" (line 148).
Resolved == pc \in {"weather", "summary", "listen", "idle"}

Invoked(f) == Events(log, "invoke", f)
Called(svc) == Events(log, "call", svc)
RaisedBy(svc) == Events(log, "raise", svc)

\* C1: in a run with non-empty text and no stored location whose extraction
\* gave 'no_valid_city' (from the model or after a failed call), the Weather
\* Client is never invoked and the run ends with the invalid-city warning,
\* not with the weather on the page.
C1_SentinelNeverFetches ==
    (Resolved /\ ~Truthy(location) /\ Truthy(user_input)
        /\ extracted_city = no_valid_city)
    => /\ Invoked("weather_report") = <<>>
       /\ Called("openweathermap") = <<>>
       /\ pc \in {"weather", "idle"}
       /\ Finished => (FailedInvalidCity /\ ~Ready /\ weather_data = <<>>)

\* A run that ended with the sentinel substituted for a failed extraction.
C1_Witness ==
    /\ Finished /\ Truthy(user_input) /\ ~Truthy(location)
    /\ extracted_city = no_valid_city
    /\ RaisedBy("gemini.extract") # <<>>
    /\ FailedInvalidCity

\* C2: when the weather request fails the run ends at "Couldn't fetch
\* weather data" without invoking the Summary Generator, and a finished run
\* has the observation and the summary both present or both absent.
C2_WeatherFailureHalts ==
    /\ RaisedBy("openweathermap") # <<>>
         => /\ FailedWeatherUnavailable
            /\ ~Ready
            /\ Invoked("generate_weather_summary") = <<>>
            /\ Called("gemini.summary") = <<>>
    /\ Finished
         => /\ (weather_data # <<>>) <=> (summary # None)
            /\ (Events(log, "markdown", "Weather Details") # <<>>)
                   <=> (Events(log, "info", "Summary") # <<>>)
            /\ (weather_data # <<>>) <=> Ready

\* A run that ended on a failed weather request.
C2_Witness ==
    /\ Finished /\ RaisedBy("openweathermap") # <<>>
    /\ FailedWeatherUnavailable /\ summary = None

\* C3: in a run with a stored location the city is that location, unchanged,
\* and the extraction function is not invoked, whatever text is present.
C3_StoredLocationWins ==
    (Resolved /\ Truthy(location))
    => /\ city_name = location
       /\ extracted_city = None
       /\ Invoked("extract_city_name") = <<>>
       /\ Called("gemini.extract") = <<>>

\* A finished run with a stored location and text typed at the same time.
C3_Witness ==
    /\ Finished /\ Truthy(location) /\ Truthy(user_input)
    /\ city_name = location /\ Ready


\* The notices about the errors of the request cycle itself; those of the
\* location button (lines 134 and 136) are apart.
CycleNotices ==
    SelectSeq(Notices, LAMBDA e : e.what \notin {"Couldn't detect location.",
                                                 "Error"})

\* The text resolved to no usable city (line 187 is reached).
InvalidCity ==
    Resolved /\ ~Truthy(location) /\ Truthy(user_input) /\ ~Truthy(city_name)

Services == {"geocoder.ip", "gemini.extract", "openweathermap",
             "gemini.summary", "elevenlabs"}

NoRetry == \A svc \in Services : Len(Called(svc)) <= 1

\* The summary shown is the error marker followed by the failure's detail.
MarkerShown(detail) ==
    /\ summary = AIErrorPrefix \o detail
    /\ Len(Events(log, "info", "Summary")) = 1
    /\ Events(log, "info", "Summary")[1].text = summary

C5_ResolverNeverEmpty ==
    /\ extracted_city # <<>>
    /\ city_name # <<>>

Forbidden == {"!", "@", "#", "$", "%", "&", "*"}

\* s with exactly the forbidden characters removed, the rest in order.
Sanitized(s) == SelectSeq(s, LAMBDA c : c \notin Forbidden)

\* C6: the text kept for speech is the summary with exactly the characters
\* !@#$%&* removed, and the synthesizer is only ever entered, and the voice
\* provider only ever called, with that text.
C6_SpeechTextSanitized ==
    /\ summary # None
         => /\ csummary = Sanitized(summary)
            /\ Chars(csummary) \cap Forbidden = {}
    /\ \A i \in 1..Len(log) :
         (log[i].kind \in {"invoke", "call"}
             /\ log[i].what \in {"text_to_speech", "elevenlabs"})
         => /\ summary # None
            /\ log[i].text = Sanitized(summary)
            /\ Chars(log[i].text) \cap Forbidden = {}

\* The voice provider was called for a summary holding a '*'.
C6_Witness ==
    /\ Finished
    /\ Called("elevenlabs") # <<>>
    /\ "*" \in Chars(summary)
    /\ Len(csummary) < Len(summary)

C8_NoCredentialSilent ==
    ~Truthy(ELEVENLABS_API_KEY)
    => /\ Called("elevenlabs") = <<>>
       /\ RaisedBy("elevenlabs") = <<>>
       /\ Events(log, "error", "TTS Error") = <<>>
       /\ Events(log, "audio", "audio/mp3") = <<>>
       /\ audio = <<>>
       /\ Invoked("text_to_speech") # <<>>
            => /\ Ready
               /\ log[Len(log)] = Event("invoke", "text_to_speech", csummary)
               /\ Len(Events(log, "info", "Summary")) = 1
               /\ Events(log, "info", "Summary")[1].text = summary

\* The synthesizer was entered on a Ready run without a credential.
C8_Witness ==
    /\ ~Truthy(ELEVENLABS_API_KEY)
    /\ Ready
    /\ Invoked("text_to_speech") # <<>>

\* C9: only a successful detection replaces a stored location; a detection
\* that raises or finds no city leaves it as it was; and every run that
\* resolves its city with a location stored resolves it to that location.
C9_StoredLocationPersists ==
    [][ /\ (Truthy(location) /\ location' # location)
            => /\ pc = "detect" /\ detect_clicked
               /\ Truthy(location')
               /\ pc' = "detect" /\ log' = <<>>
        /\ (pc = "detect" /\ pc' = "determine") => location' = location
        /\ (pc = "determine" /\ Truthy(location))
            => /\ location' = location
               /\ city_name' = location ]_vars

\* A run on the stored location Oslo after a detection that found nothing.
C9_Witness ==
    /\ Finished
    /\ location = Oslo /\ city_name = Oslo
    /\ Truthy(user_input)
    /\ Events(log, "error", "Couldn't detect location.") # <<>>

\* C10 as stated: in a run on a stored location the user text handed to the
\* Summary Generator, and embedded in its prompt, is empty.
C10_SummaryTextEmptyOnLocation ==
    Truthy(location)
    => /\ \A i \in 1..Len(Invoked("generate_weather_summary")) :
            Invoked("generate_weather_summary")[i].text = <<>>
       /\ \A i \in 1..Len(Called("gemini.summary")) :
            Called("gemini.summary")[i].text
              = <<"\n">> \o weather_data[1].name

\* C10, amended: the user text handed to the Summary Generator and embedded
\* in its prompt is the text input's content as it stands, with or without
\* a stored location; it is empty only when the text input is empty.
C10_SummaryTextIsUserInput ==
    /\ \A i \in 1..Len(Invoked("generate_weather_summary")) :
         Invoked("generate_weather_summary")[i].text = user_input
    /\ \A i \in 1..Len(Called("gemini.summary")) :
         Called("gemini.summary")[i].text
           = user_input \o <<"\n">> \o weather_data[1].name

\* A summary was asked for on a stored location with text typed.
C10_Witness ==
    /\ Truthy(location) /\ city_name = location
    /\ Truthy(user_input)
    /\ Len(Called("gemini.summary")) = 1
    /\ Invoked("generate_weather_summary")[1].text = user_input


IsPrefix(a, b) == Len(a) <= Len(b) /\ SubSeq(b, 1, Len(a)) = a

\* C11: the rerun that a resubmission of the same text starts, with the
\* services answering as before, begins from nothing, goes through the
\* steps, requests and page events of the run before it in the same order,
\* never stops short of them, and ends in the same state: every call is
\* made again.
C11_ResubmitRepeats ==
    first # <<>>
    => /\ IsPrefix(trace, first[1].trace)
       /\ IsPrefix(log, first[1].log)
       /\ trace = <<>> => (pc = "detect" /\ weather_data = <<>>
                            /\ summary = None /\ audio = <<>>)
       /\ Finished <=> trace = first[1].trace
       /\ Finished => ThisRun = first[1]
       /\ \A svc \in Services :
            Finished => Len(Called(svc)) = Len(Events(first[1].log, "call", svc))

\* A resubmitted run that has made the three calls again and ended.
C11_Witness ==
    /\ first # <<>>
    /\ Ready
    /\ Len(Called("gemini.extract")) = 1
    /\ Len(Called("openweathermap")) = 1
    /\ Len(Called("gemini.summary")) = 1


\* The answers this run has got from service svc.
Got(svc) == Answers(trace, svc)

\* Everything on the page was made from an answer this run itself got.
ShownIsOwn ==
    /\ \A e \in Chars(Events(log, "markdown", "Weather Details")) :
         /\ Len(Got("openweathermap")) = 1
         /\ Got("openweathermap")[1].answer[1].ok
         /\ weather_data = Got("openweathermap")[1].answer[1].json
         /\ e.text = weather_data[1].name \o <<",", " ">>
                        \o weather_data[1].country
    /\ \A e \in Chars(Events(log, "info", "Summary")) :
         /\ Len(Got("gemini.summary")) = 1
         /\ LET a == Got("gemini.summary")[1].answer[1]
            IN  e.text = IF a.ok THEN strip(a.text)
                         ELSE AIErrorPrefix \o a.text
    /\ \A e \in Chars(Events(log, "audio", "audio/mp3")) :
         /\ Len(Got("elevenlabs")) = 1
         /\ Got("elevenlabs")[1].answer[1].ok
         /\ e.text = Got("elevenlabs")[1].answer[1].text

\* A run that ended in a failure shows and holds no observation, summary or
\* audio.
FailedShowsNothing ==
    (FailedWeatherUnavailable \/ FailedInvalidCity)
    => /\ OfKind(log, {"markdown", "info", "audio"}) = <<>>
       /\ weather_data = <<>> /\ summary = None /\ csummary = None
       /\ audio = <<>>

\* C12: a trigger on a finished page starts a run with no observation, no
\* summary, no audio and an empty page; what a run shows is made from the
\* answers to its own calls; a run that ends Failed shows none of the three.
C12_NewCycleDiscards ==
    /\ [](ShownIsOwn /\ FailedShowsNothing)
    /\ [][ (pc = "idle" /\ pc' # "idle")
            => /\ pc' = "detect"
               /\ log' = <<>> /\ trace' = <<>>
               /\ weather_data' = <<>> /\ summary' = None
               /\ csummary' = None /\ audio' = <<>> ]_vars

\* A run that failed at the weather request although it was started, by a
\* Listen click, on a page that showed a summary.
C12_Witness ==
    /\ FailedWeatherUnavailable
    /\ listen_clicked
    /\ OfKind(log, {"markdown", "info", "audio"}) = <<>>


\* The place of each of the four calls in the order of the pipeline.
Rank(svc) ==
    CASE svc = "gemini.extract" -> 1
      [] svc = "openweathermap" -> 2
      [] svc = "gemini.summary" -> 3
      [] svc = "elevenlabs"     -> 4

\* The requests of this run to the four services, in the order made.
PipelineCalls ==
    SelectSeq(log, LAMBDA e : e.kind = "call" /\ e.what # "geocoder.ip")

\* C13: in a run the requests go out in the order extraction, weather,
\* summary, speech, each at most once; a request is made only with the
\* result of the one before it at hand; and once a request has failed or
\* been skipped, those that depend on it are not made.
C13_CallsInOrder ==
    /\ \A i, j \in 1..Len(PipelineCalls) :
         i < j => Rank(PipelineCalls[i].what) < Rank(PipelineCalls[j].what)
    /\ Called("openweathermap") # <<>>
         => /\ Truthy(city_name)
            /\ Called("openweathermap")[1].text = city_name
            /\ Called("gemini.extract") # <<>>
                 => /\ Len(Got("gemini.extract")) = 1
                    /\ city_name = extracted_city
    /\ Called("gemini.summary") # <<>>
         => /\ Len(Got("openweathermap")) = 1
            /\ weather_data # <<>>
    /\ Called("elevenlabs") # <<>>
         => /\ Len(Got("gemini.summary")) = 1
            /\ summary # None
            /\ Called("elevenlabs")[1].text = csummary
    /\ RaisedBy("gemini.extract") # <<>>
         => Called("openweathermap") = <<>>
    /\ (RaisedBy("openweathermap") # <<>>
          \/ (Finished /\ Called("openweathermap") = <<>>))
         => Called("gemini.summary") = <<>>
    /\ (Finished /\ Called("gemini.summary") = <<>>)
         => Called("elevenlabs") = <<>>

\* A run that made all four requests.
C13_Witness ==
    /\ Finished
    /\ Len(PipelineCalls) = 4
    /\ PipelineCalls[1].what = "gemini.extract"
    /\ PipelineCalls[4].what = "elevenlabs"

\* Nothing typed and nothing stored (neither line 143 nor line 145 is taken).
NoInput == user_input = <<>> /\ ~Truthy(location)

\* C14 as stated: a run with empty text and no stored location makes none of
\* the four requests and shows no warning or error at all; the invalid-city
\* warning is shown only when the text is non-empty.
C14_NoInputSilent ==
    /\ NoInput => PipelineCalls = <<>> /\ Notices = <<>>
    /\ FailedInvalidCity => user_input # <<>>

\* C14: a run with empty text and no stored location makes none of the four
\* requests and shows no warning or error other than the one of a location
\* detection that failed in that run (lines 134 and 136); the invalid-city
\* warning is shown only when the text is non-empty.
C14_NoInputQuiet ==
    /\ NoInput
         => /\ PipelineCalls = <<>>
            /\ CycleNotices = <<>>
            /\ Notices # <<>>
                 => /\ detect_clicked
                    /\ Len(Notices) = 1
                    /\ Called("geocoder.ip") # <<>>
    /\ FailedInvalidCity => user_input # <<>>

\* A run with nothing typed and nothing stored went through the whole script
\* after its location detection had failed.
C14_Witness ==
    /\ Finished
    /\ NoInput
    /\ Len(trace) >= 3
    /\ Notices # <<>>

\* The position in the log of the first event of a kind and name (0: none).
FirstAt(kind, what) ==
    IF \E i \in 1..Len(log) : log[i].kind = kind /\ log[i].what = what
    THEN CHOOSE i \in 1..Len(log) :
           /\ log[i].kind = kind /\ log[i].what = what
           /\ \A j \in 1..(i - 1) :
                ~(log[j].kind = kind /\ log[j].what = what)
    ELSE 0

\* C15: the details and the summary are on the page before text_to_speech
\* is entered; the synthesis step only adds to the page and changes neither
\* the observation nor the summary; and a run whose synthesis failed or
\* gave nothing ends Ready with its own summary displayed.
C15_SpeechNeverBlocksSummary ==
    /\ [](Invoked("text_to_speech") # <<>>
           => /\ 0 < FirstAt("markdown", "Weather Details")
              /\ FirstAt("markdown", "Weather Details")
                   < FirstAt("info", "Summary")
              /\ FirstAt("info", "Summary")
                   < FirstAt("invoke", "text_to_speech")
              /\ Events(log, "info", "Summary")[1].text = summary)
    /\ [](Finished /\ Invoked("text_to_speech") # <<>> /\ audio = <<>>
           => /\ Ready
              /\ Events(log, "info", "Summary")[1].text = summary
              /\ weather_data # <<>>)
    /\ [][pc = "listen"
           => /\ IsPrefix(log, log')
              /\ summary' = summary
              /\ csummary' = csummary
              /\ weather_data' = weather_data]_vars

\* A run whose synthesis request failed.
C15_Witness ==
    /\ Finished
    /\ RaisedBy("elevenlabs") # <<>>
    /\ audio = <<>>
    /\ Ready

\* What the resolver gave this run: the stored location, else what
\* extract_city_name returned for the text, else nothing (lines 143-146).
ResolvedCity ==
    IF location # None /\ location # <<>> THEN <<location>>
    ELSE IF user_input # <<>> THEN <<extracted_city>>
    ELSE <<>>

\* C16: weather_report is entered in a run exactly when the resolver gave a
\* city that is neither 'no_valid_city' nor empty, it is entered once, and
\* the city it is given and sends is that resolved city, unchanged,
\* whatever its content.
C16_FetchIffCity ==
    /\ pc \in {"detect", "determine", "weather"}
         => Invoked("weather_report") = <<>>
    /\ pc \in {"summary", "listen", "idle"}
         => /\ Invoked("weather_report") # <<>>
                 <=> /\ ResolvedCity # <<>>
                     /\ ResolvedCity[1] # no_valid_city
                     /\ ResolvedCity[1] # <<>>
            /\ Invoked("weather_report") # <<>>
                 => /\ Len(Invoked("weather_report")) = 1
                    /\ Invoked("weather_report")[1].text = ResolvedCity[1]
                    /\ Len(Called("openweathermap")) = 1
                    /\ Called("openweathermap")[1].text = ResolvedCity[1]

\* The model's answer was no city at all, and it was sent as the city.
C16_Witness ==
    /\ Finished
    /\ location = <<>>
    /\ extracted_city = NotACity
    /\ Called("openweathermap") # <<>>
    /\ Called("openweathermap")[1].text = NotACity

\* The session runs on its stored location: there is one, no request for an
\* extraction is in this run, and the city resolved and fetched is it.
OnStoredLocation ==
    /\ location # None /\ location # <<>>
    /\ Invoked("extract_city_name") = <<>>
    /\ Got("gemini.extract") = <<>>
    /\ Resolved => city_name = location
    /\ \A i \in 1..Len(Invoked("weather_report")) :
         Invoked("weather_report")[i].text = location

\* C17: from the moment a non-empty location is stored, and for the rest
\* of the session, a non-empty location stays stored, no run asks for a
\* city extraction, and every run resolves to the stored location whatever
\* is typed.
C17_LocationNeverCleared ==
    []((location # None /\ location # <<>>) => []OnStoredLocation)

\* With a location stored, the user typed a question about another city
\* and the run was still made on the stored location.
C17_Witness ==
    /\ Finished
    /\ location \in {Paris, Oslo}
    /\ user_input = <<"T","o","k","y","o","?">>
    /\ Called("openweathermap") # <<>>
    /\ Called("openweathermap")[1].text = location
    /\ Called("gemini.extract") = <<>>

\* The run in which text_to_speech was entered began with a Listen click
\* and went through every step of the script itself: it resolved a city,
\* got its own observation, asked for its own summary and displayed it, and
\* the text it gave to text_to_speech is that summary, sanitized.
ListenRanFullCycle ==
    /\ listen_clicked
    /\ ELEVENLABS_API_KEY # None /\ ELEVENLABS_API_KEY # <<>>
    /\ [i \in 1..Len(trace) |-> trace[i].pc]
         = <<"determine", "weather", "summary", "listen", "idle">>
    /\ city_name # None /\ city_name # <<>>
    /\ Len(Got("openweathermap")) = 1
    /\ Got("openweathermap")[1].answer[1].ok
    /\ weather_data = Got("openweathermap")[1].answer[1].json
    /\ Len(Got("gemini.summary")) = 1
    /\ summary = generate_weather_summary(weather_data[1], user_input,
                      Got("gemini.summary")[1].answer[1]).ret
    /\ Len(Events(log, "info", "Summary")) = 1
    /\ Events(log, "info", "Summary")[1].text = summary
    /\ FirstAt("call", "openweathermap") < FirstAt("call", "gemini.summary")
    /\ FirstAt("call", "gemini.summary") < FirstAt("info", "Summary")
    /\ FirstAt("info", "Summary") < FirstAt("invoke", "text_to_speech")
    /\ Len(Invoked("text_to_speech")) = 1
    /\ Invoked("text_to_speech")[1].text = Sanitized(summary)

\* C18 as stated: text_to_speech is entered only in a run that a Listen
\* click started and that went through the full script, on the sanitized
\* summary of that run, and only when the observation and the summary
\* requests of that run both succeeded and the credential is set.
C18_ListenOnSuccessfulSummary ==
    Invoked("text_to_speech") # <<>>
    => /\ ListenRanFullCycle
       /\ Got("gemini.summary")[1].answer[1].ok

\* C18: text_to_speech is entered only in a run that a Listen click started
\* and that went through the full script, on the sanitized summary of that
\* run, and only when the observation request of that run succeeded, a
\* summary text is displayed and the credential is set; when the summary
\* request of that run failed, the text is the sanitized error marker.
C18_ListenRunsFullCycle ==
    Invoked("text_to_speech") # <<>>
    => /\ ListenRanFullCycle
       /\ ~Got("gemini.summary")[1].answer[1].ok
            => Invoked("text_to_speech")[1].text
                 = Sanitized(AIErrorPrefix
                             \o Got("gemini.summary")[1].answer[1].text)

\* The voice provider was asked to speak the error marker of a failed
\* summary request.
C18_Witness ==
    /\ Finished
    /\ Called("elevenlabs") # <<>>
    /\ RaisedBy("gemini.summary") # <<>>

====
